---- MODULE Spec2Model ----
(***************************************************************************)
(* Model of backend/app.py: the POST /build handler of the Docker builder  *)
(* service (validate URL, clean workspace, clone, synthesize recipe, build *)
(* image, tear the workspace down) over a shared scratch filesystem.       *)
(* Text that the code inspects character by character (URLs, names, tags)  *)
(* is a sequence of one-character strings.                                 *)
(***************************************************************************)
EXTENDS Integers, Sequences, FiniteSets, TLC

VARIABLES
    client,      \* the module-level engine handle: TRUE when connected
    fs,          \* the scratch root: workspace name -> directory tree
    pc,          \* per request: the statement of build_image it is at
    repo_url,    \* per request: the stripped repo_url of the body
    repo_name,   \* per request: the derived workspace name
    attempt,     \* per request: failed attempts of clean_build_dir so far
    exc,         \* per request: the exception caught at line 207
    image,       \* per request: image.tags of the built image
    build_logs,  \* per request: the engine's output events
    logs,        \* per request: the filtered log tail
    fetched,     \* per request: the tree the clone put into the workspace
    context,     \* per request: the tree handed to the engine
    calls,       \* per request: the external operations invoked, in order
    response     \* per request: the value build_image returns

vars == <<client, fs, pc, repo_url, repo_name, attempt, exc, image,
          build_logs, logs, fetched, context, calls, response>>

\* ---------------------------------------------------------------- bounds
\* number of request-handling threads of the HTTP layer
NumReqs == 2

\* longest engine output (number of events) that is enumerated
MaxEvents == 25

\* the number of path segments of the URLs whose workspace is derived
MaxDepth == 2

Reqs == 1..NumReqs

\* ------------------------------------------------------ program constants
\* range(3) in clean_build_dir
MaxAttempts == 3

\* the [-20:] slice of the build log
LogLimit == 20

\* ------------------------------------------------------------------ text
UpperChars == <<"A","B","C","D","E","F","G","H","I","J","K","L","M",
                "N","O","P","Q","R","S","T","U","V","W","X","Y","Z">>

LowerChars == <<"a","b","c","d","e","f","g","h","i","j","k","l","m",
                "n","o","p","q","r","s","t","u","v","w","x","y","z">>

Digits == {"0","1","2","3","4","5","6","7","8","9"}

Range(s) == {s[i] : i \in 1..Len(s)}

Letters == Range(UpperChars) \cup Range(LowerChars)

Whitespace == {" ", "\n", "\t"}

\* str.lower() on one character
LowerChar(c) ==
    IF \E i \in 1..26 : UpperChars[i] = c
    THEN LowerChars[CHOOSE i \in 1..26 : UpperChars[i] = c]
    ELSE c

\* str.lower()
Lower(s) == [i \in 1..Len(s) |-> LowerChar(s[i])]

\* the `in` operator on strings: sub occurs in s
Contains(s, sub) ==
    \E i \in 0..(Len(s) - Len(sub)) : SubSeq(s, i + 1, i + Len(sub)) = sub

\* str.find for a set of characters, 1-based; Len(s)+1 when none occurs
FirstIn(s, stops) ==
    IF \E i \in 1..Len(s) : s[i] \in stops
    THEN CHOOSE i \in 1..Len(s) :
            s[i] \in stops /\ \A j \in 1..(i - 1) : s[j] \notin stops
    ELSE Len(s) + 1

\* str.rfind for one character, 1-based; 0 when it does not occur
LastIndexOf(s, c) ==
    IF \E i \in 1..Len(s) : s[i] = c
    THEN CHOOSE i \in 1..Len(s) :
            s[i] = c /\ \A j \in (i + 1)..Len(s) : s[j] # c
    ELSE 0

Drop(s, n) == SubSeq(s, n + 1, Len(s))

Take(s, n) == SubSeq(s, 1, n)

RECURSIVE LStrip(_)
LStrip(s) ==
    IF s # <<>> /\ Head(s) \in Whitespace THEN LStrip(Tail(s)) ELSE s

RECURSIVE RStrip(_)
RStrip(s) ==
    IF s # <<>> /\ s[Len(s)] \in Whitespace
    THEN RStrip(Take(s, Len(s) - 1))
    ELSE s

\* str.strip()
Strip(s) == RStrip(LStrip(s))

\* str.replace('.', '-')
ReplaceDots(s) == [i \in 1..Len(s) |-> IF s[i] = "." THEN "-" ELSE s[i]]

\* ------------------------------------------------------------------ URLs
UrlApp == <<"h","t","t","p","s",":","/","/","g",".","c","o","/","u","/","a","p","p",".","g","i","t">>

UrlPages == <<"h","t","t","p","s",":","/","/","s",".","g","i","t","h","u","b",".","i","o","/","a","p","p",".","g","i","t">>

UrlPagesUpper == <<"h","t","t","p","s",":","/","/","g",".","c","o","/","X",".","G","i","t","H","u","b",".","I","O","/","a","p","p">>

UrlNoScheme == <<"g",".","c","o","/","u","/","a","p","p">>

UrlNoHost == <<"h","t","t","p","s",":","/","/","/","u","/","a","p","p">>

UrlScp == <<"g","i","t","@","g",".","c","o",":","u","/","a","p","p",".","g","i","t">>

UrlBadBracket == <<"h","t","t","p","s",":","/","/","[","g","/","a","p","p">>

UrlNoSchemeBracket == <<"/","/","[","g","/","a","p","p">>

UrlPadded == <<" ">> \o UrlApp \o <<"\n">>

UrlBlank == <<" ", " ">>

\* the repo_url strings a request body may carry
Urls == {UrlApp, UrlPages, UrlPagesUpper, UrlNoScheme, UrlNoHost,
         UrlScp, UrlBadBracket, UrlNoSchemeBracket, UrlPadded, UrlBlank, <<>>}

\* final and inner path segments of repository URLs: plain, with a suffix,
\* hidden, with two periods, and the directory references "." and ".."
PathSegs ==
    {<<"u">>, <<"a","p","p">>, <<"a","p","p",".","g","i","t">>, <<".","g","i","t">>,
     <<"a",".","b",".","c">>, <<".">>, <<".",".">>}

\* paths of up to MaxDepth segments, with and without a trailing slash
RECURSIVE PathsOfDepth(_)
PathsOfDepth(n) ==
    IF n = 0 THEN {<<>>}
    ELSE {p \o <<"/">> \o seg : p \in PathsOfDepth(n - 1), seg \in PathSegs}

UrlPaths ==
    LET plain == UNION {PathsOfDepth(n) : n \in 0..MaxDepth}
    IN plain \cup {p \o <<"/">> : p \in plain}

\* valid URLs over these paths
PathUrls == {<<"h","t","t","p","s",":","/","/","g",".","c","o">> \o p : p \in UrlPaths}

\* urlparse(repo_url): scheme, netloc and path of the split URL; `raises`
\* is the ValueError urlsplit raises for unbalanced brackets in the netloc
urlparse(url) ==
    LET colon == FirstIn(url, {":"})
        scheme_chars == Letters \cup Digits \cup {"+", "-", "."}
        hasScheme == /\ colon >= 2
                     /\ colon <= Len(url)
                     /\ url[1] \in Letters
                     /\ \A i \in 1..(colon - 1) : url[i] \in scheme_chars
        scheme == IF hasScheme THEN Lower(Take(url, colon - 1)) ELSE <<>>
        rest == IF hasScheme THEN Drop(url, colon) ELSE url
        hasNetloc == Len(rest) >= 2 /\ Take(rest, 2) = <<"/", "/">>
        afterSlashes == Drop(rest, 2)
        delim == FirstIn(afterSlashes, {"/", "?", "#"})
        netloc == IF hasNetloc THEN Take(afterSlashes, delim - 1) ELSE <<>>
        rest2 == IF hasNetloc THEN Drop(afterSlashes, delim - 1) ELSE rest
        path == Take(rest2, FirstIn(rest2, {"?", "#"}) - 1)
    IN [scheme |-> scheme, netloc |-> netloc, path |-> path,
        raises |-> hasNetloc /\ (("[" \in Range(netloc)) # ("]" \in Range(netloc)))]

\* the components of a path: split on "/", empty and "." components dropped
RECURSIVE PathParts(_, _, _)
PathParts(s, cur, acc) ==
    LET keep == IF cur = <<>> \/ cur = <<".">> THEN acc ELSE Append(acc, cur)
    IN IF s = <<>> THEN keep
       ELSE IF Head(s) = "/" THEN PathParts(Tail(s), <<>>, keep)
       ELSE PathParts(Tail(s), Append(cur, Head(s)), acc)

\* Path(p).name
PathName(p) ==
    LET parts == PathParts(p, <<>>, <<>>)
    IN IF parts = <<>> THEN <<>> ELSE parts[Len(parts)]

\* Path(p).stem
PathStem(p) ==
    LET name == PathName(p)
        i == LastIndexOf(name, ".")
    IN IF 1 < i /\ i < Len(name) THEN Take(name, i - 1) ELSE name

Unnamed == <<"u","n","n","a","m","e","d">>

\* repo_name = Path(parsed.path).stem or "unnamed"
RepoName(url) ==
    LET stem == PathStem(urlparse(url).path)
    IN IF stem = <<>> THEN Unnamed ELSE stem

\* all([parsed.scheme, parsed.netloc])
ValidUrl(url) ==
    LET parsed == urlparse(url)
    IN parsed.scheme # <<>> /\ parsed.netloc # <<>>

GithubIo == <<"g","i","t","h","u","b",".","i","o">>

\* a marker test on the derived name instead of the URL
HasPagesMarkerInName(url) == Contains(Lower(RepoName(url)), GithubIo)

\* 'github.io' in repo_url.lower()
HasPagesMarker(url) == Contains(Lower(url), GithubIo)

\* f"builder/{repo_name.replace('.', '-')}:latest"
ImageTag(name) ==
    <<"b","u","i","l","d","e","r","/">> \o ReplaceDots(name)
        \o <<":","l","a","t","e","s","t">>

\* ------------------------------------------------------------ filesystem
\* the workspace directories /tmp/builds/<repo_name> the requests can name
DirNames == {RepoName(Strip(u)) : u \in {v \in Urls : ValidUrl(Strip(v))}}

\* entries of a repository root that the code looks at
RepoFiles == {"Dockerfile", "package.json", "index.html"}

\* DOCKERFILE_TEMPLATES: the recipe texts, named by their key
DOCKERFILE_TEMPLATES ==
    [static |-> "FROM nginx:alpine", node |-> "FROM node:16-alpine",
     default |-> "FROM alpine"]

\* content of a Dockerfile: the repository's own, or one of the templates
Recipes == {"repo"} \cup {DOCKERFILE_TEMPLATES[k] : k \in {"static", "node", "default"}}

NoDir == [exists |-> FALSE, files |-> {}, recipe |-> "none"]

EmptyDir == [exists |-> TRUE, files |-> {}, recipe |-> "none"]

\* an existence test with the file name misspelt
HasDockerfileWrongName(d) == d.exists /\ "dockerfile" \in d.files

\* (build_dir / 'Dockerfile').exists()
HasDockerfile(d) == d.exists /\ "Dockerfile" \in d.files

\* open(build_dir / 'Dockerfile', 'w').write(text)
WriteDockerfile(d, text) ==
    [exists |-> TRUE, files |-> d.files \cup {"Dockerfile"}, recipe |-> text]

\* the trees shutil.rmtree(build_dir, ignore_errors=True) can leave behind:
\* nothing, or (errors ignored) the directory with any part of its entries
RmtreeResults(d) ==
    {NoDir} \cup
    {[exists |-> TRUE, files |-> keep,
      recipe |-> IF "Dockerfile" \in keep THEN d.recipe ELSE "none"] :
        keep \in SUBSET d.files}

\* what a shallow clone of a repository puts into the workspace
CloneResults ==
    {[exists |-> TRUE, files |-> f,
      recipe |-> IF "Dockerfile" \in f THEN "repo" ELSE "none"] :
        f \in SUBSET RepoFiles}

\* a detection that tests index.html before package.json
detect_project_type_html_first(d) ==
    IF "index.html" \in d.files THEN "static"
    ELSE IF "package.json" \in d.files THEN "node"
    ELSE "default"

\* detect_project_type(build_dir)
detect_project_type(d) ==
    IF "package.json" \in d.files THEN "node"
    ELSE IF "index.html" \in d.files THEN "static"
    ELSE "default"

\* ------------------------------------------------------------ exceptions
NoExc == [type |-> "none", msg |-> <<>>]

RuntimeError(msg) == [type |-> "RuntimeError", msg |-> msg]

ValueError(msg) == [type |-> "ValueError", msg |-> msg]

\* failures raised by the libraries, not by a raise statement of app.py
PermissionDenied == [type |-> "PermissionError", msg |-> <<"[Errno 13] Permission denied">>]

GitMissing == [type |-> "FileNotFoundError", msg |-> <<"[Errno 2] No such file or directory: 'git'">>]

EngineTimeout == [type |-> "ReadTimeout", msg |-> <<"UnixHTTPConnectionPool: Read timed out.">>]

\* stderr of a failed git clone, as the fragments the code searches for
GitStderrs ==
    {<<"fatal: ", "Repository not found">>,
     <<"fatal: ", "could not read Username", " for 'https://g.co'">>,
     <<"remote: ", "Repository not found", "fatal: ", "could not read Username">>,
     <<"fatal: ", "unable to access">>}

NotEmptyStderr == <<"fatal: ", "destination path already exists and is not an empty directory">>

\* the except branch of clone_repository: classify the diagnostic text
CloneError(error_msg) ==
    IF Contains(error_msg, <<"Repository not found">>)
    THEN ValueError(<<"Repository not found or private (needs access token)">>)
    ELSE IF Contains(error_msg, <<"could not read Username">>)
    THEN ValueError(<<"Authentication failed - use HTTPS with token">>)
    ELSE RuntimeError(<<"Git clone failed: ">> \o error_msg)

BuildDir(name) == <<"/","t","m","p","/","b","u","i","l","d","s","/">> \o name

CleanError(name) ==
    RuntimeError(<<"Failed to clean build directory after 3 attempts: ">> \o BuildDir(name))

EngineUnavailable == RuntimeError(<<"Docker service unavailable">>)

BuildFailed == RuntimeError(<<"Docker build failed: ", "The command returned a non-zero code: 1">>)

EngineAPIError == RuntimeError(<<"Docker service error">>)

\* ------------------------------------------------------------- responses
NoResp == [status |-> 0, json |-> FALSE, error |-> <<>>, image |-> <<>>,
           logs |-> <<>>, run_command |-> <<>>]

\* jsonify({"error": msg}), status
ErrorResp(status, msg) ==
    [status |-> status, json |-> TRUE, error |-> msg, image |-> <<>>,
     logs |-> <<>>, run_command |-> <<>>]

\* an exception that leaves build_image: the framework's own 500 page
UncaughtResp ==
    [status |-> 500, json |-> FALSE, error |-> <<>>, image |-> <<>>,
     logs |-> <<>>, run_command |-> <<>>]

InternalError == <<"Internal server error">>

\* the success body of build_image
SuccessResp(tags, lg) ==
    [status |-> 200, json |-> TRUE, error |-> <<>>, image |-> tags[1],
     logs |-> lg, run_command |-> <<"docker run -p 8080:80 ">> \o tags[1]]

\* ---------------------------------------------------------- engine output
\* the k-th event of the engine's build output, a dict with or without
\* 'stream': an event without stream, a blank stream and an empty stream
\* come first, the text lines follow
EventAt(k) ==
    IF k = 1 THEN [has_stream |-> FALSE, stream |-> <<>>]
    ELSE IF k = 2 THEN [has_stream |-> TRUE, stream |-> <<" ", "\n">>]
    ELSE IF k = 3 THEN [has_stream |-> TRUE, stream |-> <<>>]
    ELSE [has_stream |-> TRUE, stream |-> <<" ", ToString(k), "\n">>]

\* the outputs of the engine: the first n events, for every n up to MaxEvents
EngineOutputs == {[i \in 1..n |-> EventAt(i)] : n \in 0..MaxEvents}

\* a slice from the wrong end: [:LogLimit]
FirstN(s, n) == IF Len(s) > n THEN SubSeq(s, 1, n) ELSE s

\* the [-LogLimit:] slice
LastN(s, n) == IF Len(s) > n THEN SubSeq(s, Len(s) - n + 1, Len(s)) ELSE s

KeepLine(line) == line.has_stream /\ Strip(line.stream) # <<>>

\* the list comprehension over build_logs followed by the slice
FilterLogs(events) ==
    LET kept == SelectSeq(events, KeepLine)
    IN LastN([i \in 1..Len(kept) |-> Strip(kept[i].stream)], LogLimit)

\* a tag the built image already carries from an earlier build of the same
\* content under another name; the engine lists the tags of an image in
\* lexical order, so this one comes before the tag of "app"
OtherTag == <<"b","u","i","l","d","e","r","/","a","a","a",":","l","a","t","e","s","t">>

\* --------------------------------------------------------------- requests
\* the bodies of POST /build: not JSON, JSON that is no object, an object
\* without repo_url, with a repo_url that is no string, with a string
Bodies ==
    {[kind |-> k, repo_url |-> <<>>] :
        k \in {"not_json", "json_list", "no_key", "non_string"}}
    \cup {[kind |-> "string", repo_url |-> u] : u \in Urls}

Init ==
    /\ client \in BOOLEAN
    /\ fs = [d \in DirNames |-> NoDir]
    /\ pc = [r \in Reqs |-> "idle"]
    /\ repo_url = [r \in Reqs |-> <<>>]
    /\ repo_name = [r \in Reqs |-> <<>>]
    /\ attempt = [r \in Reqs |-> 0]
    /\ exc = [r \in Reqs |-> NoExc]
    /\ image = [r \in Reqs |-> <<>>]
    /\ build_logs = [r \in Reqs |-> <<>>]
    /\ logs = [r \in Reqs |-> <<>>]
    /\ fetched = [r \in Reqs |-> NoDir]
    /\ context = [r \in Reqs |-> NoDir]
    /\ calls = [r \in Reqs |-> <<>>]
    /\ response = [r \in Reqs |-> NoResp]

\* a return statement outside the inner try: the response leaves at once
Reply(r, url, resp) ==
    /\ repo_url' = [repo_url EXCEPT ![r] = url]
    /\ response' = [response EXCEPT ![r] = resp]
    /\ pc' = [pc EXCEPT ![r] = "done"]
    /\ UNCHANGED <<client, fs, repo_name, attempt, exc, image, build_logs,
                   logs, fetched, context, calls>>

\* lines 169-185: body checks, URL validation, workspace name, for a
\* request whose body is one of `bodies`
ReceiveFrom(r, bodies) ==
    /\ pc[r] = "idle"
    /\ \E body \in bodies :
        LET url == Strip(body.repo_url)
        IN IF body.kind = "not_json"
           THEN Reply(r, <<>>, ErrorResp(400, <<"Request must be JSON">>))
           ELSE IF body.kind \in {"json_list", "non_string"}
           THEN Reply(r, <<>>, UncaughtResp)
           ELSE IF url = <<>>
           THEN Reply(r, url, ErrorResp(400, <<"Missing repo_url">>))
           ELSE IF urlparse(url).raises
           THEN Reply(r, url, ErrorResp(500, InternalError))
           ELSE IF ~ValidUrl(url)
           THEN Reply(r, url, ErrorResp(400, <<"Invalid repository URL">>))
           ELSE /\ repo_url' = [repo_url EXCEPT ![r] = url]
                /\ repo_name' = [repo_name EXCEPT ![r] = RepoName(url)]
                /\ pc' = [pc EXCEPT ![r] = "clean_exists"]
                /\ UNCHANGED <<client, fs, attempt, exc, image, build_logs,
                               logs, fetched, context, calls, response>>

Receive(r) == ReceiveFrom(r, Bodies)

\* one more pipeline step entered by request r: an attempt of
\* clean_build_dir, the clone, a recipe write, the engine build, the teardown
Called(r, op) == calls' = [calls EXCEPT ![r] = Append(@, op)]

\* an inner handler that returns its 500 without a finally block
RaiseNoFinally(r, e) ==
    /\ exc' = [exc EXCEPT ![r] = e]
    /\ response' = [response EXCEPT ![r] = ErrorResp(500, e.msg)]
    /\ pc' = [pc EXCEPT ![r] = "done"]

\* a clone failure that is recorded but does not stop the pipeline
RaiseAndGoOn(r, e) ==
    /\ exc' = [exc EXCEPT ![r] = e]
    /\ response' = [response EXCEPT ![r] = ErrorResp(500, e.msg)]
    /\ pc' = [pc EXCEPT ![r] = IF pc[r] = "clone" THEN "override"
                                 ELSE "finally_exists"]

\* lines 207-209: the inner handler turns any exception into a 500 that
\* carries str(e); the finally block follows
Raise(r, e) ==
    /\ exc' = [exc EXCEPT ![r] = e]
    /\ response' = [response EXCEPT ![r] = ErrorResp(500, e.msg)]
    /\ pc' = [pc EXCEPT ![r] = "finally_exists"]

\* a retry loop that keeps waiting for the directory after the last attempt
CleanAttemptFailedWaits(r) ==
    /\ attempt' = [attempt EXCEPT ![r] = @ + 1]
    /\ pc' = [pc EXCEPT ![r] = IF attempt[r] + 1 >= MaxAttempts
                                 THEN "clean_sleep" ELSE "clean_exists"]
    /\ UNCHANGED <<exc, response>>

\* lines 67-70: a failed attempt of clean_build_dir; the third one raises
CleanAttemptFailed(r) ==
    /\ attempt' = [attempt EXCEPT ![r] = @ + 1]
    /\ IF attempt[r] + 1 >= MaxAttempts
       THEN Raise(r, CleanError(repo_name[r]))
       ELSE /\ pc' = [pc EXCEPT ![r] = "clean_exists"]
            /\ UNCHANGED <<exc, response>>

\* line 63: build_dir.exists(), which raises on an inaccessible path
CleanExists(r) ==
    /\ pc[r] = "clean_exists"
    /\ Called(r, "prepare")
    /\ \/ /\ pc' = [pc EXCEPT ![r] = IF fs[repo_name[r]].exists
                                     THEN "clean_rmtree" ELSE "clean_mkdir"]
          /\ UNCHANGED <<attempt, exc, response>>
       \/ CleanAttemptFailed(r)
    /\ UNCHANGED <<client, fs, repo_url, repo_name, image, build_logs, logs,
                   fetched, context>>

\* line 64: shutil.rmtree(build_dir, ignore_errors=True)
CleanRmtree(r) ==
    /\ pc[r] = "clean_rmtree"
    /\ \E d \in RmtreeResults(fs[repo_name[r]]) :
          fs' = [fs EXCEPT ![repo_name[r]] = d]
    /\ pc' = [pc EXCEPT ![r] = "clean_mkdir"]
    /\ UNCHANGED <<client, repo_url, repo_name, attempt, exc, image,
                   build_logs, logs, fetched, context, calls, response>>

\* lines 65-66: build_dir.mkdir(parents=True, exist_ok=True); return
CleanMkdir(r) ==
    /\ pc[r] = "clean_mkdir"
    /\ \/ /\ fs' = [fs EXCEPT ![repo_name[r]] =
                        IF @.exists THEN @ ELSE EmptyDir]
          /\ pc' = [pc EXCEPT ![r] = "clone"]
          /\ UNCHANGED <<attempt, exc, response>>
       \/ /\ ~fs[repo_name[r]].exists
          /\ CleanAttemptFailed(r)
          /\ UNCHANGED fs
    /\ UNCHANGED <<client, repo_url, repo_name, image, build_logs, logs,
                   fetched, context, calls>>

\* lines 73-90: clone_repository(repo_url, build_dir). git clones into an
\* absent or empty directory only, and leaves nothing behind when it fails
Clone(r) ==
    /\ pc[r] = "clone"
    /\ Called(r, "clone")
    /\ \/ /\ fs[repo_name[r]].files = {}
          /\ \E d \in CloneResults :
                /\ fs' = [fs EXCEPT ![repo_name[r]] = d]
                /\ fetched' = [fetched EXCEPT ![r] = d]
          /\ pc' = [pc EXCEPT ![r] = "override"]
          /\ UNCHANGED <<exc, response>>
       \/ /\ fs[repo_name[r]].files = {}
          /\ \E error_msg \in GitStderrs : Raise(r, CloneError(error_msg))
          /\ UNCHANGED <<fs, fetched>>
       \/ /\ fs[repo_name[r]].files # {}
          /\ Raise(r, CloneError(NotEmptyStderr))
          /\ UNCHANGED <<fs, fetched>>
       \/ /\ Raise(r, GitMissing)
          /\ UNCHANGED <<fs, fetched>>
    /\ UNCHANGED <<client, repo_url, repo_name, attempt, image, build_logs,
                   logs, context>>

\* lines 191-196: the GitHub Pages special case; the Dockerfile can be
\* written only into a directory that is there
Override(r) ==
    /\ pc[r] = "override"
    /\ IF HasPagesMarker(repo_url[r])
       THEN \/ /\ fs[repo_name[r]].exists
               /\ fs' = [fs EXCEPT ![repo_name[r]] =
                            IF HasDockerfile(@) THEN @
                            ELSE WriteDockerfile(@, DOCKERFILE_TEMPLATES["static"])]
               /\ calls' = [calls EXCEPT ![r] =
                            IF HasDockerfile(fs[repo_name[r]]) THEN @
                            ELSE Append(@, "override_write")]
               /\ pc' = [pc EXCEPT ![r] = "generate"]
               /\ UNCHANGED <<exc, response>>
            \/ /\ Raise(r, PermissionDenied)
               /\ UNCHANGED <<fs, calls>>
       ELSE /\ pc' = [pc EXCEPT ![r] = "generate"]
            /\ UNCHANGED <<fs, calls, exc, response>>
    /\ UNCHANGED <<client, repo_url, repo_name, attempt, image, build_logs,
                   logs, fetched, context>>

\* lines 104-113: the head of build_docker_image: engine handle check, then
\* the recipe of the detected project type when the workspace has none
Generate(r) ==
    /\ pc[r] = "generate"
    /\ IF ~client
       THEN /\ Raise(r, EngineUnavailable)
            /\ UNCHANGED <<fs, calls>>
       ELSE \/ /\ fs[repo_name[r]].exists
               /\ fs' = [fs EXCEPT ![repo_name[r]] =
                            IF HasDockerfile(@) THEN @
                            ELSE WriteDockerfile(@,
                                    DOCKERFILE_TEMPLATES[detect_project_type(@)])]
               /\ calls' = [calls EXCEPT ![r] =
                            IF HasDockerfile(fs[repo_name[r]]) THEN @
                            ELSE Append(@, "generate_write")]
               /\ pc' = [pc EXCEPT ![r] = "engine_build"]
               /\ UNCHANGED <<exc, response>>
            \/ /\ Raise(r, PermissionDenied)
               /\ UNCHANGED <<fs, calls>>
    /\ UNCHANGED <<client, repo_url, repo_name, attempt, image, build_logs,
                   logs, fetched, context>>

\* lines 115-137 and 198-205: client.images.build, the log tail, the
\* success body; BuildError and APIError are rewrapped, anything else the
\* engine client raises passes through build_docker_image unchanged; a
\* build succeeds only on a context directory that holds a Dockerfile
EngineBuild(r) ==
    /\ pc[r] = "engine_build"
    /\ Called(r, "engine_build")
    /\ context' = [context EXCEPT ![r] = fs[repo_name[r]]]
    /\ \/ \E events \in EngineOutputs, earlier \in {<<>>, <<OtherTag>>} :
            LET tags == earlier \o <<ImageTag(repo_name[r])>>
            IN /\ HasDockerfile(fs[repo_name[r]])
               /\ image' = [image EXCEPT ![r] = tags]
               /\ build_logs' = [build_logs EXCEPT ![r] = events]
               /\ logs' = [logs EXCEPT ![r] = FilterLogs(events)]
               /\ response' = [response EXCEPT ![r] =
                                SuccessResp(tags, FilterLogs(events))]
               /\ pc' = [pc EXCEPT ![r] = "finally_exists"]
               /\ UNCHANGED exc
       \/ /\ \E e \in {BuildFailed, EngineAPIError, EngineTimeout} : Raise(r, e)
          /\ UNCHANGED <<image, build_logs, logs>>
    /\ UNCHANGED <<client, fs, repo_url, repo_name, attempt, fetched>>

\* line 212: build_dir.exists() in the finally block; when it raises, the
\* exception replaces the pending return value and reaches line 215
FinallyExists(r) ==
    /\ pc[r] = "finally_exists"
    /\ Called(r, "teardown")
    /\ \/ /\ pc' = [pc EXCEPT ![r] = IF fs[repo_name[r]].exists
                                     THEN "finally_rmtree" ELSE "done"]
          /\ UNCHANGED response
       \/ /\ response' = [response EXCEPT ![r] = ErrorResp(500, InternalError)]
          /\ pc' = [pc EXCEPT ![r] = "done"]
    /\ UNCHANGED <<client, fs, repo_url, repo_name, attempt, exc, image,
                   build_logs, logs, fetched, context>>

\* line 213: shutil.rmtree(build_dir, ignore_errors=True), then the
\* pending response is returned
FinallyRmtree(r) ==
    /\ pc[r] = "finally_rmtree"
    /\ \E d \in RmtreeResults(fs[repo_name[r]]) :
          fs' = [fs EXCEPT ![repo_name[r]] = d]
    /\ pc' = [pc EXCEPT ![r] = "done"]
    /\ UNCHANGED <<client, repo_url, repo_name, attempt, exc, image,
                   build_logs, logs, fetched, context, calls, response>>

\* the response has been sent; the thread takes the next request
Close(r) ==
    /\ pc[r] = "done"
    /\ pc' = [pc EXCEPT ![r] = "idle"]
    /\ repo_url' = [repo_url EXCEPT ![r] = <<>>]
    /\ repo_name' = [repo_name EXCEPT ![r] = <<>>]
    /\ attempt' = [attempt EXCEPT ![r] = 0]
    /\ exc' = [exc EXCEPT ![r] = NoExc]
    /\ image' = [image EXCEPT ![r] = <<>>]
    /\ build_logs' = [build_logs EXCEPT ![r] = <<>>]
    /\ logs' = [logs EXCEPT ![r] = <<>>]
    /\ fetched' = [fetched EXCEPT ![r] = NoDir]
    /\ context' = [context EXCEPT ![r] = NoDir]
    /\ calls' = [calls EXCEPT ![r] = <<>>]
    /\ response' = [response EXCEPT ![r] = NoResp]
    /\ UNCHANGED <<client, fs>>

\* a request is taken up while no other request is in flight
ReceiveAlone(r) ==
    /\ \A q \in Reqs \ {r} : pc[q] = "idle"
    /\ Receive(r)

\* the steps of a request that has passed validation
Step(r) ==
    \/ CleanExists(r)
    \/ CleanRmtree(r)
    \/ CleanMkdir(r)
    \/ Clone(r)
    \/ Override(r)
    \/ Generate(r)
    \/ EngineBuild(r)
    \/ FinallyExists(r)
    \/ FinallyRmtree(r)
    \/ Close(r)

Next == \E r \in Reqs : ReceiveAlone(r) \/ Step(r)

\* requests served one at a time
Spec == Init /\ [][Next]_vars

\* the interleaved runs explored: every request is a build of UrlApp, the
\* repository has at most a Dockerfile and an index.html, the engine prints
\* nothing, and neither prepare nor the teardown's existence test fails
ConcScope ==
    \A r \in Reqs :
        /\ pc[r] # "idle" => repo_url[r] = UrlApp /\ repo_name[r] # <<>>
        /\ attempt[r] = 0
        /\ fetched[r].files \subseteq {"Dockerfile", "index.html"}
        /\ build_logs[r] = <<>>
        /\ Len(image[r]) <= 1
        /\ exc[r] \in {NoExc, CloneError(NotEmptyStderr), PermissionDenied, BuildFailed}
        /\ response[r].error # InternalError

\* line 220: app.run serves every request on a thread of its own, so the
\* steps of the requests in flight interleave
ConcNext ==
    \E r \in Reqs :
        \/ Receive(r) /\ ConcScope'
        \/ CleanExists(r) /\ ConcScope'
        \/ CleanRmtree(r) /\ ConcScope'
        \/ CleanMkdir(r) /\ ConcScope'
        \/ Clone(r) /\ ConcScope'
        \/ Override(r) /\ ConcScope'
        \/ Generate(r) /\ ConcScope'
        \/ EngineBuild(r) /\ ConcScope'
        \/ FinallyExists(r) /\ ConcScope'
        \/ FinallyRmtree(r) /\ ConcScope'
        \/ Close(r) /\ ConcScope'

SpecConc == Init /\ [][ConcNext]_vars

\* lines 180-188: the workspace of every valid URL over UrlPaths, up to the
\* call of clean_build_dir
PathNext ==
    \E r \in Reqs : ReceiveFrom(r, {[kind |-> "string", repo_url |-> u] : u \in PathUrls})

SpecPath == Init /\ [][PathNext]_vars

\* every external call returns: a request in flight takes its next step
SpecLive == Spec /\ \A r \in Reqs : WF_vars(Step(r))

\* ------------------------------------------------------------ properties
Invoked(r, op) == op \in Range(calls[r])

Count(r, op) == Cardinality({i \in 1..Len(calls[r]) : calls[r][i] = op})

\* the request got past URL validation
Validated(r) == repo_name[r] # <<>>

\* C1: a request whose repo_url lacks a scheme or a host is answered 400
\* and runs no pipeline step: no prepare, clone, recipe write, engine build
\* or teardown.
C1_InvalidUrlRunsNothing ==
    \A r \in Reqs :
        LET parsed == urlparse(repo_url[r])
        IN (/\ pc[r] # "idle"
            /\ repo_url[r] # <<>>
            /\ (parsed.scheme = <<>> \/ parsed.netloc = <<>>))
           => /\ pc[r] = "done"
              /\ response[r].status = 400
              /\ calls[r] = <<>>
              /\ fetched[r] = NoDir
              /\ context[r] = NoDir

\* C2: with the engine handle absent, every validated request ends in the
\* 500 engine-unavailable error and has run neither prepare nor clone nor a
\* recipe write.
C2_EngineDownFailsFast ==
    \A r \in Reqs :
        (~client /\ pc[r] = "done" /\ Validated(r))
        => /\ response[r] = ErrorResp(500, <<"Docker service unavailable">>)
           /\ ~Invoked(r, "prepare")
           /\ ~Invoked(r, "clone")
           /\ ~Invoked(r, "override_write")
           /\ ~Invoked(r, "generate_write")

\* C3: when a validated request has returned its response, its workspace
\* directory does not exist.
C3_WorkspaceGoneAtResponse ==
    \A r \in Reqs :
        (pc[r] = "done" /\ Validated(r)) => ~fs[repo_name[r]].exists

\* C4: a failure that is none of the errors app.py raises itself reaches
\* the caller only as the generic 500 "Internal server error".
C4_UnexpectedFailureIsGeneric ==
    \A r \in Reqs :
        (pc[r] = "done" /\ exc[r].type \notin {"none", "ValueError", "RuntimeError"})
        => response[r] = ErrorResp(500, <<"Internal server error">>)

C6_PreparedDirIsEmpty ==
    \A r \in Reqs :
        pc[r] = "clone"
        => fs[repo_name[r]].exists /\ fs[repo_name[r]].files = {}

\* C7: prepare makes at most 3 attempts and returns at the first one that
\* succeeds; it reports failure only after exactly 3 failed attempts, and
\* then the request ends in the 500 workspace-prepare-failed error without
\* a clone or an engine build.
C7_PrepareRetriesThenAborts ==
    \A r \in Reqs :
        /\ Count(r, "prepare") <= 3
        /\ pc[r] = "clone" => Count(r, "prepare") = attempt[r] + 1
        /\ exc[r] = CleanError(repo_name[r])
            => /\ attempt[r] = 3
               /\ Count(r, "prepare") = 3
               /\ ~Invoked(r, "clone")
               /\ ~Invoked(r, "engine_build")
               /\ pc[r] = "done"
                    => response[r] = ErrorResp(500, CleanError(repo_name[r]).msg)

TextEvents(events) ==
    {i \in 1..Len(events) :
        /\ events[i].has_stream
        /\ \E j \in 1..Len(events[i].stream) : events[i].stream[j] \notin Whitespace}

\* the k-th smallest element of a set of numbers
Kth(S, k) == CHOOSE i \in S : Cardinality({x \in S : x < i}) = k - 1

\* t is s without its leading and trailing whitespace
IsTrimOf(t, s) ==
    \E a \in 1..Len(s), b \in 1..Len(s) :
        /\ t = SubSeq(s, a, b)
        /\ s[a] \notin Whitespace
        /\ s[b] \notin Whitespace
        /\ \A k \in 1..Len(s) : (k < a \/ k > b) => s[k] \in Whitespace

\* C10: on a successful build the returned logs are at most 20, none is
\* empty, and they are the last min(20, n) of the n trimmed non-empty
\* stream texts of the engine output, in their order.
C10_LogTail ==
    \A r \in Reqs :
        response[r].status = 200
        => LET lg == response[r].logs
               T == TextEvents(build_logs[r])
               n == Cardinality(T)
               m == IF n < 20 THEN n ELSE 20
           IN /\ Len(lg) = m
              /\ Len(lg) <= 20
              /\ \A j \in 1..Len(lg) : lg[j] # <<>>
              /\ \A j \in 1..m :
                    IsTrimOf(lg[j], build_logs[r][Kth(T, n - m + j)].stream)

C10_Witness ==
    \E r \in Reqs :
        /\ pc[r] = "done"
        /\ response[r].status = 200
        /\ Cardinality(TextEvents(build_logs[r])) > 20
        /\ Len(build_logs[r]) > Cardinality(TextEvents(build_logs[r]))
        /\ Len(response[r].logs) = 20

\* the three outcomes of a failed clone, by the text git printed
RepositoryNotFound == ValueError(<<"Repository not found or private (needs access token)">>)

AuthenticationRequired == ValueError(<<"Authentication failed - use HTTPS with token">>)

CloneFailed(text) == RuntimeError(<<"Git clone failed: ">> \o text)

CloneStderrs == GitStderrs \cup {NotEmptyStderr}

\* C11: a failed clone is RepositoryNotFound when git's text has
\* 'Repository not found', AuthenticationRequired when it has 'could not
\* read Username' and not the former, CloneFailed with the text otherwise;
\* the request then answers 500 with that message and never builds an image.
C11_CloneFailureClassified ==
    /\ \A text \in CloneStderrs :
          LET notFound == \E i \in 1..Len(text) : text[i] = "Repository not found"
              needsAuth == \E i \in 1..Len(text) : text[i] = "could not read Username"
          IN /\ notFound => CloneError(text) = RepositoryNotFound
             /\ (needsAuth /\ ~notFound) => CloneError(text) = AuthenticationRequired
             /\ (~needsAuth /\ ~notFound) => CloneError(text) = CloneFailed(text)
    /\ \A r \in Reqs :
          (pc[r] = "done" /\ \E text \in CloneStderrs : exc[r] = CloneError(text))
          => /\ response[r] = ErrorResp(500, exc[r].msg)
             /\ ~Invoked(r, "engine_build")

\* C12: every response of POST /build that is no success is JSON with an
\* error field, with status 400 exactly when the body or the URL is missing
\* or invalid and 500 for every other failure.
C12_FailuresAreJsonErrors ==
    \A r \in Reqs :
        (pc[r] = "done" /\ response[r].status # 200)
        => /\ response[r].json
           /\ response[r].error # <<>>
           /\ response[r].status \in {400, 500}
           /\ response[r].status = 400 <=> ~Validated(r)

\* C13: a request that reached prepare enters the teardown exactly once,
\* after its last pipeline step and before its response is returned; a
\* request rejected before prepare never enters it.
C13_TeardownOnce ==
    \A r \in Reqs :
        /\ Count(r, "teardown") <= 1
        /\ (pc[r] = "done" /\ Invoked(r, "prepare")) => Count(r, "teardown") = 1
        /\ Invoked(r, "teardown")
             => /\ calls[r][Len(calls[r])] = "teardown"
                /\ pc[r] \in {"finally_rmtree", "done"}
        /\ pc[r] \notin {"finally_rmtree", "done"} => ~Invoked(r, "teardown")
        /\ ~Invoked(r, "prepare") => ~Invoked(r, "teardown")
        /\ (pc[r] = "done" /\ ~Validated(r)) => calls[r] = <<>>

C13_Witness ==
    \E r \in Reqs :
        /\ pc[r] = "done"
        /\ calls[r] = <<"prepare", "clone", "teardown">>
        /\ exc[r] = RepositoryNotFound

\* C14: a failing teardown leaves the outcome of the build alone: a build
\* whose prepare, fetch and image build succeeded answers 200, a failed
\* build answers 500 with its own error message.
C14_TeardownKeepsOutcome ==
    \A r \in Reqs :
        (pc[r] = "done" /\ Invoked(r, "teardown"))
        => /\ (exc[r] = NoExc /\ image[r] # <<>>) => response[r].status = 200
           /\ exc[r] # NoExc => response[r] = ErrorResp(500, exc[r].msg)

\* the place of a pipeline step in the order of the handler
Rank(op) ==
    CASE op = "prepare" -> 1
      [] op = "clone" -> 2
      [] op = "override_write" -> 3
      [] op = "generate_write" -> 4
      [] op = "engine_build" -> 5
      [] op = "teardown" -> 6

C15_Order ==
    \A r \in Reqs :
        /\ \A i \in 1..Len(calls[r]), j \in 1..Len(calls[r]) :
              i < j => /\ Rank(calls[r][i]) <= Rank(calls[r][j])
                       /\ calls[r][i] = calls[r][j] => calls[r][i] = "prepare"
        /\ Invoked(r, "prepare") => Validated(r)
        /\ Invoked(r, "clone")
             => /\ Invoked(r, "prepare")
                /\ exc[r] # CleanError(repo_name[r])
        /\ (\E op \in {"override_write", "generate_write", "engine_build"} : Invoked(r, op))
             => /\ Invoked(r, "clone")
                /\ fetched[r].exists
        /\ exc[r] # NoExc => pc[r] \in {"finally_exists", "finally_rmtree", "done"}
        /\ response[r].status = 200
             => /\ exc[r] = NoExc
                /\ Invoked(r, "prepare")
                /\ fetched[r].exists
                /\ Invoked(r, "engine_build")
                /\ image[r] # <<>>

C15_AfterFailure ==
    \A r \in Reqs :
        exc[r] # NoExc
        => calls'[r] \in {calls[r], Append(calls[r], "teardown"), <<>>}

\* C15: the steps run in the order validate, prepare, fetch, override,
\* generation, image build and stop at the first failure: the clone starts
\* only after a successful prepare, a recipe write and the engine build only
\* after a successful clone, only the teardown follows a failed step, and a
\* 200 needs prepare, clone and image build to have succeeded.
C15_StepsInOrder == []C15_Order /\ [][C15_AfterFailure]_vars

C15_Witness ==
    \E r \in Reqs :
        /\ pc[r] = "done"
        /\ response[r].status = 200
        /\ calls[r] = <<"prepare", "prepare", "clone", "override_write",
                        "engine_build", "teardown">>

\* d is what request r fetched, with at most r's own generated recipe added
OwnWorkspace(r, d) ==
    /\ d.exists
    /\ d.files \ {"Dockerfile"} = fetched[r].files \ {"Dockerfile"}
    /\ "Dockerfile" \in fetched[r].files => d = fetched[r]
    /\ ("Dockerfile" \in d.files /\ "Dockerfile" \notin fetched[r].files)
         => /\ Invoked(r, "override_write") \/ Invoked(r, "generate_write")
            /\ d.recipe # "repo"

\* C16: from a request's successful fetch to the end of its image build no
\* other request changes or removes its workspace, however the requests
\* interleave, so the engine builds from the files the request fetched.
C16_WorkspaceOwned ==
    \A r \in Reqs :
        /\ pc[r] \in {"override", "generate", "engine_build"}
             => OwnWorkspace(r, fs[repo_name[r]])
        /\ Invoked(r, "engine_build") => OwnWorkspace(r, context[r])

\* the directory a path names once the system resolves it: "." stays, ".."
\* steps to the parent
RECURSIVE Resolve(_, _)
Resolve(parts, acc) ==
    IF parts = <<>> THEN acc
    ELSE IF Head(parts) = <<".", ".">>
    THEN Resolve(Tail(parts), IF acc = <<>> THEN acc ELSE Take(acc, Len(acc) - 1))
    ELSE Resolve(Tail(parts), Append(acc, Head(parts)))

ScratchRoot == <<<<"t","m","p">>, <<"b","u","i","l","d","s">>>>

\* C17: for every valid URL the directory that prepare cleans and teardown
\* removes lies properly below /tmp/builds: the derived name is never empty
\* and never leads to the scratch root or out of it.
C17_WorkspaceBelowRoot ==
    \A r \in Reqs :
        Validated(r)
        => LET dir == Resolve(PathParts(BuildDir(repo_name[r]), <<>>, <<>>), <<>>)
           IN /\ repo_name[r] # <<>>
              /\ Len(dir) > Len(ScratchRoot)
              /\ Take(dir, Len(ScratchRoot)) = ScratchRoot

\* C18: a successful build answers with the tag derived from its own
\* request, "builder/" + name with "-" for every "." + ":latest", and with
\* "docker run -p 8080:80 " + that tag as run command, also when the built
\* image carries tags of other builds.
C18_ResponseCarriesOwnTag ==
    \A r \in Reqs :
        response[r].status = 200
        => LET name == [i \in 1..Len(repo_name[r]) |->
                          IF repo_name[r][i] = "." THEN "-" ELSE repo_name[r][i]]
               tag == <<"b","u","i","l","d","e","r","/">> \o name
                         \o <<":","l","a","t","e","s","t">>
           IN /\ "." \notin Range(name)
              /\ tag = ImageTag(repo_name[r])
              /\ response[r].image = tag
              /\ response[r].run_command = <<"docker run -p 8080:80 ">> \o tag

C19_OneResponse ==
    \A r \in Reqs :
        /\ attempt[r] <= MaxAttempts
        /\ Count(r, "prepare") <= MaxAttempts
        /\ pc[r] = "done" => response[r].status # 0

C19_ResponseStays ==
    \A r \in Reqs :
        pc[r] = "done" => (response'[r] = response[r] \/ pc'[r] = "idle")

\* C19: every request returns exactly one response once every external
\* call returns: the prepare loop ends after at most 3 attempts and no step
\* of the handler loops or waits.
C19_EveryRequestReturns ==
    /\ []C19_OneResponse
    /\ [][C19_ResponseStays]_vars
    /\ \A r \in Reqs : (pc[r] # "idle") ~> (pc[r] = "done")

C19_Witness ==
    \E r \in Reqs :
        /\ pc[r] = "done"
        /\ attempt[r] = MaxAttempts
        /\ Count(r, "prepare") = MaxAttempts
        /\ response[r].status = 500

====
